---- MODULE Spec2Model ----
(***************************************************************************)
(* Model of the simulation kernel of InfoSocialEpidemics:                  *)
(*   src/isepi.py            ISEpiAgent (per-agent disease state machine), *)
(*                           the metric reporters, ISEpiModel.step         *)
(*   src/grahamscheduler.py  GrahamActivation (earmark scheduler)          *)
(*                                                                         *)
(* Reading conventions.  The names Stage.EXPOSED, Stage.ASYMPTOMATIC and   *)
(* Stage.SEVERE are used by the code (isepi.py 76, 130, 324) although the  *)
(* Stage enumeration (isepi.py 27-31) lists four members only; they are    *)
(* modelled as further, distinct stage values that no branch of            *)
(* ISEpiAgent.step recognises.  Attributes the code reads but never sets   *)
(* (isolated, isolated_but_inefficient, earmark, astep, model.grid,        *)
(* model.rate_inbound, model.prob_isolation_effective, model.prob_severe,  *)
(* the partition count) are configuration of the run.  Probabilities are   *)
(* percentages; a random draw is a nondeterministic choice among the       *)
(* outcomes its distribution allows.                                       *)
(***************************************************************************)
EXTENDS Integers, Sequences, FiniteSets

\* ---------------------------------------------------------------- bounds
NumAgents == 2
MaxSteps == 2
MaxDwell == 1
MaxIncubation == 1
MaxRecovery == 1
GridWidth == 3
GridHeight == 2
Partitions == 2

Ids == 0..(NumAgents - 1)
IdSeq == [i \in 1..NumAgents |-> i - 1]
Cells == (0..(GridWidth - 1)) \X (0..(GridHeight - 1))

\* ------------------------------------------------------- model parameters
prob_contagion == 50
prob_isolation_effective == 50
prob_severe == 50
dwell_15_day == 96
RateInboundValues == {0, 50}

\* ----------------------------------------------------------------- stages
SUSCEPTIBLE == "SUSCEPTIBLE"
INFECTED == "INFECTED"
RECOVERED == "RECOVERED"
DECEASED == "DECEASED"
EXPOSED == "EXPOSED"
ASYMPTOMATIC == "ASYMPTOMATIC"
SEVERE == "SEVERE"

Stage == {SUSCEPTIBLE, INFECTED, RECOVERED, DECEASED}
StageNames == Stage \cup {EXPOSED, ASYMPTOMATIC, SEVERE}

VARIABLES
    agents,        \* schedule._agents: unique_id -> the agent's attributes
    rate_inbound,  \* model.rate_inbound
    scheduler,     \* "graham" or "random": the scheduler kind of line 252
    stages,        \* GrahamActivation.stages: partition -> list of ids
    cur,           \* number of partitions whose iteration has begun
    queue,         \* rest of the shuffled list being iterated
    activated,     \* ids whose step() was called in the current schedule.step()
    steps,         \* schedule.steps
    time,          \* schedule.time
    stepno,        \* model.stepno
    snapshot,      \* the row last collected by datacollector.collect
    pc,            \* position inside ISEpiModel.__init__ and ISEpiModel.step
    fault,         \* the exception that ended the run, or "none"
    twin,          \* the agents of a second run of the same seed, or <<>>
    num_init       \* model.num_init

vars == <<agents, rate_inbound, scheduler, stages, cur, queue, activated,
          steps, time, stepno, snapshot, pc, fault, twin, num_init>>

\* ------------------------------------------------------------ random draws
\* scipy.stats.bernoulli.rvs(n/d): the outcomes probability n/d allows
Bernoulli(n, d) == IF n = 0 THEN {FALSE} ELSE IF n = d THEN {TRUE} ELSE BOOLEAN

\* scipy.stats.poisson.rvs(mu), truncated at MaxDwell
PoissonDwell == 0..MaxDwell

\* ---------------------------------------------------------------- the grid
\* a grid whose edges do not wrap
torus_adj_NoWrap(x, y) == <<x, y>>

\* MultiGrid.torus_adj
torus_adj(x, y) == <<x % GridWidth, y % GridHeight>>

\* MultiGrid.get_neighborhood(pos, moore=True, include_center=False)
get_neighborhood(pos) ==
    { torus_adj(pos[1] + dx, pos[2] + dy) :
        <<dx, dy>> \in ((-1..1) \X (-1..1)) \ {<<0, 0>>} }

\* MultiGrid.get_cell_list_contents([pos])
get_cell_list_contents(ag, pos) == {b \in Ids : ag[b].pos = pos}

\* ---------------------------------------------------------------- the agent
is_contagious(a) == a.stage = EXPOSED \/ a.stage = ASYMPTOMATIC

\* severity_value = prob_severe/(dwell_15_day*recovery_time), as the pair
\* <<numerator, denominator>> (prob_severe is a percentage)
severity_value(a) == <<prob_severe, 100 * dwell_15_day * a.recovery_time>>

\* the random outcomes one call of ISEpiAgent.step may consume; a draw the
\* call cannot reach in the agent's present state is fixed
Draws(ag, i, ri) ==
    LET a == ag[i]
        sus == a.stage = SUSCEPTIBLE
        contact == \E c \in Ids : ag[c].pos = a.pos /\ is_contagious(ag[c])
        moves == /\ a.curr_dwelling = 0
                 /\ (sus /\ ~a.isolated) \/ a.stage = RECOVERED
    IN  [inbound : IF sus THEN Bernoulli(ri, 100) ELSE {FALSE},
         isofail : IF sus /\ a.isolated /\ contact
                   THEN Bernoulli(100 - prob_isolation_effective, 100)
                   ELSE {FALSE},
         contagion : IF sus /\ contact
                     THEN Bernoulli(a.prob_contagion, 100) ELSE {FALSE},
         severe : IF sus \/ a.stage = INFECTED
                  THEN Bernoulli(severity_value(a)[1], severity_value(a)[2])
                  ELSE {FALSE},
         choice : IF moves THEN get_neighborhood(a.pos) ELSE {a.pos},
         dwell : IF moves THEN PoissonDwell ELSE {0}]

\* a move that resamples the dwelling time and leaves the agent where it is
move_NoRelocation(a, d) ==
    IF a.curr_dwelling > 0
    THEN [a EXCEPT !.curr_dwelling = a.curr_dwelling - 1]
    ELSE [a EXCEPT !.curr_dwelling = d.dwell]

\* ISEpiAgent.move
move(a, d) ==
    IF a.curr_dwelling > 0
    THEN [a EXCEPT !.curr_dwelling = a.curr_dwelling - 1]
    ELSE [a EXCEPT !.pos = d.choice, !.curr_dwelling = d.dwell]

\* lines 93-95: the returning-traveller trial
InboundTrial(a, d) ==
    IF a.stage = SUSCEPTIBLE /\ d.inbound
    THEN [a EXCEPT !.stage = INFECTED] ELSE a

\* lines 97-124: the branch of an agent still SUSCEPTIBLE
\* (add_contact_trace, line 107, is defined nowhere and keeps no state here)
SusceptibleBranch(ag, a, d) ==
    LET cellmates == get_cell_list_contents(ag, a.pos)
        contagious == \E c \in cellmates : is_contagious(ag[c])
        \* lines 108-114: both arms of the test set infected_contact
        failed == contagious /\ a.isolated /\ d.isofail
        infected_contact == contagious
        a2 == IF failed THEN [a EXCEPT !.isolated_but_inefficient = TRUE]
              ELSE a
        a3 == IF infected_contact /\ d.contagion
              THEN [a2 EXCEPT !.stage = INFECTED] ELSE a2
    IN  IF ~a3.isolated THEN move(a3, d) ELSE a3

\* an illness that may end in death
InfectedBranch_Mortal(a, d) ==
    IF a.curr_incubation + a.curr_recovery < a.incubation_time + a.recovery_time
    THEN [a EXCEPT !.curr_recovery = a.curr_recovery + 1,
                   !.stage = IF d.severe THEN SEVERE ELSE INFECTED]
    ELSE [a EXCEPT !.stage = IF d.severe THEN DECEASED ELSE RECOVERED]

\* an illness that lasts one update too many
InfectedBranch_OneTooMany(a, d) ==
    IF a.curr_incubation + a.curr_recovery <= a.incubation_time + a.recovery_time
    THEN [a EXCEPT !.curr_recovery = a.curr_recovery + 1,
                   !.stage = IF d.severe THEN SEVERE ELSE INFECTED]
    ELSE [a EXCEPT !.stage = RECOVERED]

\* lines 125-132
InfectedBranch(a, d) ==
    IF a.curr_incubation + a.curr_recovery < a.incubation_time + a.recovery_time
    THEN [a EXCEPT !.curr_recovery = a.curr_recovery + 1,
                   !.stage = IF d.severe THEN SEVERE ELSE INFECTED]
    ELSE [a EXCEPT !.stage = RECOVERED]

\* lines 133-138
RecoveredBranch(a, d) == move([a EXCEPT !.curr_recovery = 0], d)

\* a DECEASED agent treated as one still ill
DeceasedBranch_AsInfected(a, d) ==
    IF a.curr_recovery < a.incubation_time + a.recovery_time
    THEN [a EXCEPT !.curr_recovery = a.curr_recovery + 1]
    ELSE [a EXCEPT !.stage = RECOVERED]

\* lines 139-140
DeceasedBranch(a, d) == a

\* line 145, reached by every branch that returns
Stepped(a) == [agent |-> [a EXCEPT !.astep = a.astep + 1], exit |-> FALSE]

\* an unknown stage passed over in silence
AgentStep_UnknownIgnored(ag, i, d) ==
    LET a1 == InboundTrial(ag[i], d)
    IN  IF a1.stage = SUSCEPTIBLE THEN Stepped(SusceptibleBranch(ag, a1, d))
        ELSE IF a1.stage = INFECTED THEN Stepped(InfectedBranch(a1, d))
        ELSE IF a1.stage = RECOVERED THEN Stepped(RecoveredBranch(a1, d))
        ELSE Stepped(a1)

\* ISEpiAgent.step for agent i with draws d: the agent afterwards, and
\* whether sys.exit was called (lines 141-143).  The test of line 97 opens
\* the if/elif chain, so an agent infected by the trial of lines 93-95 goes
\* on into the INFECTED branch of the same call.
AgentStep(ag, i, d) ==
    LET a1 == InboundTrial(ag[i], d)
    IN  IF a1.stage = SUSCEPTIBLE THEN Stepped(SusceptibleBranch(ag, a1, d))
        ELSE IF a1.stage = INFECTED THEN Stepped(InfectedBranch(a1, d))
        ELSE IF a1.stage = RECOVERED THEN Stepped(RecoveredBranch(a1, d))
        ELSE IF a1.stage = DECEASED THEN Stepped(DeceasedBranch(a1, d))
        ELSE [agent |-> a1, exit |-> TRUE]

\* ------------------------------------------------------------- the metrics
count_type(ag, stage) == Cardinality({i \in Ids : ag[i].stage = stage})

\* a count that takes in the counting agent itself
interactants_CountsSelf(ag, i) ==
    IF ag[i].stage # DECEASED /\ ag[i].stage # RECOVERED
    THEN Cardinality({b \in get_cell_list_contents(ag, ag[i].pos) :
                        ~ag[b].isolated \/ ag[i].isolated_but_inefficient})
    ELSE 0

\* ISEpiAgent.interactants
interactants(ag, i) ==
    IF ag[i].stage # DECEASED /\ ag[i].stage # RECOVERED
    THEN Cardinality({b \in get_cell_list_contents(ag, ag[i].pos) :
                        /\ b # i
                        /\ (~ag[b].isolated \/ ag[i].isolated_but_inefficient)})
    ELSE 0

RECURSIVE SumOver(_, _)
SumOver(f, S) ==
    IF S = {} THEN 0
    ELSE LET x == CHOOSE y \in S : TRUE IN f[x] + SumOver(f, S \ {x})

\* compute_contacts: the sum of the interactants; the reported value is this
\* sum over len(model.schedule.agents)
compute_contacts(ag) == SumOver([i \in Ids |-> interactants(ag, i)], Ids)

infected_count(ag) == count_type(ag, INFECTED)
infected_time(ag) ==
    SumOver([i \in Ids |-> IF ag[i].stage = INFECTED
                           THEN ag[i].incubation_time ELSE 0], Ids)

\* compute_eff_reprod_number divides by the number of INFECTED agents
RtFaults(ag) == infected_count(ag) = 0

\* prob_contagion * avg_contacts * (infected_time/infected) as the pair
\* <<numerator, denominator>>
compute_eff_reprod_number(ag) ==
    <<prob_contagion * compute_contacts(ag) * infected_time(ag),
      100 * NumAgents * infected_count(ag)>>

\* a row stamped with the number of the step about to be completed
Collected_StepAfter(ag, n) ==
    [Step |-> n + 1,
     num_agents |-> NumAgents,
     Susceptible |-> count_type(ag, SUSCEPTIBLE),
     Infected |-> count_type(ag, INFECTED),
     Recovered |-> count_type(ag, RECOVERED),
     Deceased |-> count_type(ag, DECEASED),
     Contacts |-> compute_contacts(ag),
     Rt |-> compute_eff_reprod_number(ag)]

\* one row of model reporters; fractions are kept as their numerators over
\* num_agents
Collected(ag, n) ==
    [Step |-> n,
     num_agents |-> NumAgents,
     Susceptible |-> count_type(ag, SUSCEPTIBLE),
     Infected |-> count_type(ag, INFECTED),
     Recovered |-> count_type(ag, RECOVERED),
     Deceased |-> count_type(ag, DECEASED),
     Contacts |-> compute_contacts(ag),
     Rt |-> compute_eff_reprod_number(ag)]

NoSnapshot == [Step |-> -1]

\* ------------------------------------------------------------ the scheduler
NumStages == IF scheduler = "graham" THEN Partitions ELSE 1

\* the ids of agents, in registration order, that precede the first agent
\* whose earmark is no key of self.stages
RECURSIVE GoodPrefix(_, _)
GoodPrefix(ag, k) ==
    IF k > NumAgents THEN NumAgents
    ELSE IF ag[IdSeq[k]].earmark \in 0..(Partitions - 1)
         THEN GoodPrefix(ag, k + 1) ELSE k - 1

\* self.stages after the two loops of lines 34-38 have run over the first n
\* registered agents
Buckets(ag, n) ==
    [p \in 0..(Partitions - 1) |->
        LET InP(i) == ag[i].earmark = p
        IN  SelectSeq(SubSeq(IdSeq, 1, n), InP)]

\* the keys taken from the last one down
StageKey_Descending(c, n) == n - 1 - c

\* line 40: the c-th key (from 0) of self.stages, a dict filled in the order
\* 0..n-1 by line 34-35
StageKey(c, n) == c

\* a shuffle that loses the last element of the list
Shuffles_DropLast(s) ==
    {t \in [1..(Len(s) - 1) -> {s[k] : k \in 1..Len(s)}] :
        \A j, k \in 1..(Len(s) - 1) : j # k => t[j] # t[k]}

\* random.shuffle: every ordering of the list
Shuffles(s) ==
    {t \in [1..Len(s) -> {s[k] : k \in 1..Len(s)}] :
        \A j, k \in 1..Len(s) : j # k => t[j] # t[k]}

\* ------------------------------------------------------------ initial state
\* ISEpiAgent.__init__ (counters at 0, timers sampled once) with the
\* attributes set by the rest of the configuration.  stage is any member of
\* the Stage enumeration: the run may start from any population.
\* recovery_time is at least 1, since line 67 divides by it.
AgentsOf(S) ==
    [stage : S,
     pos : Cells,
     incubation_time : 0..MaxIncubation,
     recovery_time : 1..MaxRecovery,
     prob_contagion : {prob_contagion},
     curr_dwelling : {0},
     curr_incubation : {0},
     curr_recovery : {0},
     isolated : BOOLEAN,
     isolated_but_inefficient : {FALSE},
     earmark : (-1)..Partitions,
     astep : {0}]

NewAgents == AgentsOf(Stage)

\* The grid is a torus, so the first agent is placed at the origin and the
\* others anywhere (lines 288-290).  RandomActivation never reads an earmark.
RunOf(A) ==
    /\ scheduler \in {"graham", "random"}
    /\ agents \in [Ids -> A]
    /\ agents[0].pos = <<0, 0>>
    /\ scheduler = "random" => \A i \in Ids : agents[i].earmark = 0
    /\ rate_inbound \in RateInboundValues
    /\ stages = <<>>
    /\ cur = 0
    /\ queue = <<>>
    /\ activated = <<>>
    /\ steps = 0
    /\ time = 0
    /\ stepno = 0
    /\ snapshot = NoSnapshot
    /\ pc = "idle"
    /\ fault = "none"

InitRun == RunOf(NewAgents)

Init == InitRun /\ twin = <<>> /\ num_init = 0

\* ------------------------------------------------------------------ actions
\* ISEpiModel.step, line 328: datacollector.collect(self).  The run is
\* followed for MaxSteps calls of ISEpiModel.step.
Collect ==
    /\ pc = "idle"
    /\ fault = "none"
    /\ stepno < MaxSteps
    /\ IF RtFaults(agents)
       THEN /\ fault' = "ZeroDivisionError"
            /\ UNCHANGED <<snapshot, pc>>
       ELSE /\ snapshot' = Collected(agents, stepno)
            /\ pc' = "collected"
            /\ UNCHANGED fault
    /\ UNCHANGED <<agents, rate_inbound, scheduler, stages, cur, queue,
                   activated, steps, time, stepno, twin, num_init>>

\* a scheduler that calls each agent's step() as it files the agent, so that
\* the agents registered before the one with the bad earmark have run
ScheduleBegin_RunsWhileFiling ==
    /\ pc = "collected"
    /\ cur' = 0
    /\ queue' = <<>>
    /\ IF scheduler = "graham"
       THEN LET n == GoodPrefix(agents, 1)
            IN  /\ stages' = Buckets(agents, n)
                /\ IF n < NumAgents
                   THEN /\ fault' = "KeyError"
                        /\ activated' = SubSeq(IdSeq, 1, n)
                        /\ agents' =
                              [i \in Ids |->
                                 IF \E k \in 1..n : IdSeq[k] = i
                                 THEN Stepped(agents[i]).agent ELSE agents[i]]
                        /\ UNCHANGED pc
                   ELSE /\ pc' = "schedule"
                        /\ activated' = <<>>
                        /\ UNCHANGED <<fault, agents>>
       ELSE /\ stages' = [p \in {0} |-> IdSeq]
            /\ pc' = "schedule"
            /\ activated' = <<>>
            /\ UNCHANGED <<fault, agents>>
    /\ UNCHANGED <<rate_inbound, scheduler, steps, time, stepno,
                   snapshot, twin, num_init>>

\* ISEpiModel.step, line 333, entering schedule.step(): GrahamActivation.step
\* lines 34-38, or RandomActivation.step taking the whole agent list
ScheduleBegin ==
    /\ pc = "collected"
    /\ activated' = <<>>
    /\ cur' = 0
    /\ queue' = <<>>
    /\ IF scheduler = "graham"
       THEN LET n == GoodPrefix(agents, 1)
            IN  /\ stages' = Buckets(agents, n)
                /\ IF n < NumAgents
                   THEN fault' = "KeyError" /\ UNCHANGED pc
                   ELSE pc' = "schedule" /\ UNCHANGED fault
       ELSE /\ stages' = [p \in {0} |-> IdSeq]
            /\ pc' = "schedule"
            /\ UNCHANGED fault
    /\ UNCHANGED <<agents, rate_inbound, scheduler, steps, time, stepno,
                   snapshot, twin, num_init>>

\* lines 40-41: the next key of self.stages, its list shuffled in place
ShuffleStage ==
    /\ pc = "schedule"
    /\ fault = "none"
    /\ queue = <<>>
    /\ cur < NumStages
    /\ \E t \in Shuffles(stages[StageKey(cur, NumStages)]) :
          /\ stages' = [stages EXCEPT ![StageKey(cur, NumStages)] = t]
          /\ queue' = t
    /\ cur' = cur + 1
    /\ UNCHANGED <<agents, rate_inbound, scheduler, activated, steps, time,
                   stepno, snapshot, pc, fault, twin, num_init>>

\* lines 43-44: self._agents[unique_id].step() for the next id of the list
AgentUpdate ==
    /\ pc = "schedule"
    /\ fault = "none"
    /\ queue # <<>>
    /\ LET i == Head(queue)
       IN  \E d \in Draws(agents, i, rate_inbound) :
              LET r == AgentStep(agents, i, d)
              IN  /\ agents' = [agents EXCEPT ![i] = r.agent]
                  /\ activated' = Append(activated, i)
                  /\ IF r.exit
                     THEN fault' = "SystemExit" /\ UNCHANGED queue
                     ELSE queue' = Tail(queue) /\ UNCHANGED fault
    /\ UNCHANGED <<rate_inbound, scheduler, stages, cur, steps, time, stepno,
                   snapshot, pc, twin, num_init>>

\* lines 46-47 of GrahamActivation.step, then ISEpiModel.step line 334
FinishStep ==
    /\ pc = "schedule"
    /\ fault = "none"
    /\ queue = <<>>
    /\ cur = NumStages
    /\ steps' = steps + 1
    /\ time' = time + 1
    /\ stepno' = stepno + 1
    /\ pc' = "idle"
    /\ UNCHANGED <<agents, rate_inbound, scheduler, stages, cur, queue,
                   activated, snapshot, fault, twin, num_init>>

Next ==
    \/ Collect
    \/ ScheduleBegin
    \/ ShuffleStage
    \/ AgentUpdate
    \/ FinishStep

Spec == Init /\ [][Next]_vars

\* ------------------------------------------- runs without a DECEASED agent
\* The stages an agent holds short of death: SUSCEPTIBLE (line 56) and
\* EXPOSED (line 324) as the constructor leaves them, INFECTED (lines 95,
\* 118) and RECOVERED (line 132) as step() assigns them.
LiveStages == {SUSCEPTIBLE, EXPOSED, INFECTED, RECOVERED}

LiveInit == RunOf(AgentsOf(LiveStages)) /\ twin = <<>> /\ num_init = 0

LiveSpec == LiveInit /\ [][Next]_vars

\* ------------------------------------------------ step() called directly
\* ISEpiAgent.step as a function of the agent, its cell-mates and the draws:
\* from any population of the stages the code assigns to a new or a living
\* agent, step() is called on agents in any order, each at most once, with
\* no collection of metrics before it (a population of two without an
\* INFECTED agent does not get past datacollector.collect).
StepInit ==
    /\ RunOf(AgentsOf(Stage \cup {EXPOSED}))
    /\ scheduler = "random"
    /\ twin = <<>>
    /\ num_init = 0

\* agent.step() for an agent not yet called (isepi.py 90-145)
CallStep ==
    /\ fault = "none"
    /\ \E i \in Ids \ {activated[k] : k \in 1..Len(activated)} :
       \E d \in Draws(agents, i, rate_inbound) :
          LET r == AgentStep(agents, i, d)
          IN  /\ agents' = [agents EXCEPT ![i] = r.agent]
              /\ activated' = Append(activated, i)
              /\ fault' = IF r.exit THEN "SystemExit" ELSE fault
    /\ UNCHANGED <<rate_inbound, scheduler, stages, cur, queue, steps, time,
                   stepno, snapshot, pc, twin, num_init>>

StepNext == CallStep

StepSpec == StepInit /\ [][StepNext]_vars

\* ------------------------------------------------- two runs of one seed
\* Two runs built from the same seed, configuration and scheduler kind,
\* followed side by side for as long as they have been identical.  The seed
\* seeds model.random, which serves random.shuffle (grahamscheduler.py 41)
\* and self.random.choice (isepi.py 159): those outcomes are the same in
\* both runs.  bernoulli.rvs and poisson.rvs (isepi.py 94, 108, 117, 129,
\* 162) draw from scipy's own generator, which the seed does not reach:
\* their outcomes are chosen separately for each run.
TwinInit == InitRun /\ twin = agents /\ num_init = 0

TwinAgentUpdate ==
    /\ twin = agents
    /\ pc = "schedule"
    /\ fault = "none"
    /\ queue # <<>>
    /\ LET i == Head(queue)
       IN  \E d \in Draws(agents, i, rate_inbound) :
           \E e \in Draws(twin, i, rate_inbound) :
              LET r == AgentStep(agents, i, d)
                  t == AgentStep(twin, i, e)
              IN  /\ e.choice = d.choice
                  /\ agents' = [agents EXCEPT ![i] = r.agent]
                  /\ twin' = [twin EXCEPT ![i] = t.agent]
                  /\ activated' = Append(activated, i)
                  /\ IF r.exit
                     THEN fault' = "SystemExit" /\ UNCHANGED queue
                     ELSE queue' = Tail(queue) /\ UNCHANGED fault
    /\ UNCHANGED <<rate_inbound, scheduler, stages, cur, steps, time, stepno,
                   snapshot, pc, num_init>>

TwinCollect == twin = agents /\ Collect
TwinScheduleBegin == twin = agents /\ ScheduleBegin
TwinShuffleStage == twin = agents /\ ShuffleStage
TwinFinishStep == twin = agents /\ FinishStep

TwinNext ==
    \/ TwinCollect
    \/ TwinScheduleBegin
    \/ TwinShuffleStage
    \/ TwinAgentUpdate
    \/ TwinFinishStep

TwinSpec == TwinInit /\ [][TwinNext]_vars

\* ------------------------------------------------------ model construction
\* ISEpiModel.__init__ up to the seeding loop: every agent is created
\* SUSCEPTIBLE (line 56) and placed (lines 288-290); num_init is
\* int(num_agents * prop_initial_infected) with a proportion in [0, 1]
\* (line 273).
SetupInit ==
    /\ scheduler \in {"graham", "random"}
    /\ agents \in [Ids -> AgentsOf({SUSCEPTIBLE})]
    /\ agents[0].pos = <<0, 0>>
    /\ scheduler = "random" => \A i \in Ids : agents[i].earmark = 0
    /\ rate_inbound \in RateInboundValues
    /\ num_init \in 0..NumAgents
    /\ stages = <<>>
    /\ cur = 0
    /\ queue = <<>>
    /\ activated = <<>>
    /\ steps = 0
    /\ time = 0
    /\ stepno = 0
    /\ snapshot = NoSnapshot
    /\ pc = "setup"
    /\ fault = "none"
    /\ twin = <<>>

\* lines 319-325 run over the agents with self.num_init at n.  The loop
\* leaves at line 321 when self.num_init < 0 and otherwise sets the agent
\* EXPOSED; line 325 assigns a local name num_init, so the self.num_init
\* that line 321 tests is the same for every agent.
Seeded(ag, n) ==
    [i \in Ids |-> IF n < 0 THEN ag[i] ELSE [ag[i] EXCEPT !.stage = EXPOSED]]

\* the seeding loop, which ends ISEpiModel.__init__
Seed ==
    /\ pc = "setup"
    /\ agents' = Seeded(agents, num_init)
    /\ pc' = "idle"
    /\ UNCHANGED <<rate_inbound, scheduler, stages, cur, queue, activated,
                   steps, time, stepno, snapshot, fault, twin, num_init>>

\* construction, then the first call of ISEpiModel.step, which a population
\* without an INFECTED agent does not get past
SetupNext ==
    \/ Seed
    \/ Collect

SetupSpec == SetupInit /\ [][SetupNext]_vars

\* =================================================================== claims
StageSum(ag) ==
    count_type(ag, SUSCEPTIBLE) + count_type(ag, INFECTED)
        + count_type(ag, RECOVERED) + count_type(ag, DECEASED)

\* C1: population conservation.  After setup and after every completed
\* ISEpiModel.step, and in every collected row, the four stage counts the
\* reporters give add up to the number of agents.
C1_PopulationConserved ==
    /\ (pc = "idle" => StageSum(agents) = NumAgents)
    /\ (snapshot # NoSnapshot =>
           snapshot.Susceptible + snapshot.Infected + snapshot.Recovered
               + snapshot.Deceased = snapshot.num_agents)

\* C2: DECEASED is absorbing.  No step of the run takes an agent out of
\* DECEASED, moves it, or changes one of its three timers.
C2_DeceasedAbsorbing ==
    [][\A i \in Ids :
          agents[i].stage = DECEASED =>
              /\ agents'[i].stage = DECEASED
              /\ agents'[i].pos = agents[i].pos
              /\ agents'[i].curr_dwelling = agents[i].curr_dwelling
              /\ agents'[i].curr_incubation = agents[i].curr_incubation
              /\ agents'[i].curr_recovery = agents[i].curr_recovery]_vars

\* a DECEASED agent whose step() has been called in two scheduler steps
C2_Witness ==
    \E i \in Ids : agents[i].stage = DECEASED /\ agents[i].astep = 2

earmark_of(i) == agents[i].earmark

\* C3: earmark scheduler ordering.  In the list of updates made so far in a
\* scheduler step, earmarks never decrease, and when an agent is updated
\* every agent of a lower earmark has already been updated in that step.
C3_PartitionOrder ==
    scheduler = "graham" =>
        /\ \A j, k \in 1..Len(activated) :
              j < k => earmark_of(activated[j]) <= earmark_of(activated[k])
        /\ \A k \in 1..Len(activated) : \A i \in Ids :
              earmark_of(i) < earmark_of(activated[k]) =>
                  \E j \in 1..(k - 1) : activated[j] = i

\* both partitions ran in one step, the agent registered last going first
C3_Witness ==
    /\ scheduler = "graham"
    /\ activated = <<1, 0>>
    /\ earmark_of(1) = 0
    /\ earmark_of(0) = 1

\* C4: exactly-once activation.  No agent is updated twice within one
\* scheduler step; the scheduler's counter moves only by one, only when the
\* updates of the step are exactly one per registered agent, and without any
\* agent changing; every agent has then been updated once per counted step.
C4_ExactlyOnce ==
    [][/\ \A j, k \in 1..Len(activated') :
             j # k => activated'[j] # activated'[k]
       /\ steps' # steps =>
             /\ steps' = steps + 1
             /\ Len(activated) = NumAgents
             /\ {activated[k] : k \in 1..Len(activated)} = Ids
             /\ agents' = agents
             /\ \A i \in Ids : agents[i].astep = steps']_vars

\* two scheduler steps have completed
C4_Witness ==
    /\ steps = 2
    /\ pc = "idle"
    /\ Len(activated) = NumAgents

AllowedEdge(s, t) ==
    \/ s = t
    \/ <<s, t>> \in {<<SUSCEPTIBLE, INFECTED>>, <<INFECTED, RECOVERED>>,
                     <<INFECTED, SEVERE>>, <<SEVERE, RECOVERED>>,
                     <<SEVERE, DECEASED>>}

\* C6: stage transition graph.  Every single update leaves the agent's stage
\* unchanged or moves it along one of the five edges S->I, I->R, I->SEVERE,
\* SEVERE->R, SEVERE->D.
C6_TransitionGraph ==
    [][\A i \in Ids : AllowedEdge(agents[i].stage, agents'[i].stage)]_vars

\* C7: disease progression completes, in the form a finite run refutes: the
\* run is never ended by sys.exit while an agent is still INFECTED or SEVERE,
\* that is, short of RECOVERED or DECEASED.
C7_NotStoppedWhileIll ==
    fault = "SystemExit" =>
        \A i \in Ids : agents[i].stage \notin {INFECTED, SEVERE}

\* C8: earmark range.  No scheduler step starts with a registered agent
\* whose earmark is outside 0..Partitions-1, and no step fails on an earmark.
C8_EarmarkEnforced ==
    /\ (scheduler = "graham" /\ pc = "collected" =>
           \A i \in Ids : earmark_of(i) \in 0..(Partitions - 1))
    /\ fault # "KeyError"

\* C9: reproduction-number guard.  Collecting the metrics never ends the run
\* with a division fault; a population without INFECTED agents yields a row.
C9_RtGuarded ==
    /\ fault # "ZeroDivisionError"
    /\ (pc = "collected" => snapshot.Step = stepno)

\* C10: fatal unknown stage.  Calling step() of an agent whose stage no
\* branch recognises ends the run at once: the agent is left as it was, the
\* fault is raised inside the scheduler step with neither counter advanced,
\* and nothing at all happens afterwards.
C10_FatalUnknownStage ==
    [][/\ (fault = "SystemExit" => UNCHANGED vars)
       /\ (/\ Len(activated') = Len(activated) + 1
           /\ agents[activated'[Len(activated')]].stage \notin Stage
           => /\ fault' = "SystemExit"
              /\ agents' = agents)
       /\ (fault' = "SystemExit" =>
              /\ pc' = "schedule"
              /\ steps' = steps /\ time' = time /\ stepno' = stepno
              /\ agents'[activated'[Len(activated')]].stage \notin Stage)]_vars

\* sys.exit was called while another agent was still waiting for its update
C10_Witness ==
    /\ fault = "SystemExit"
    /\ Len(queue) = 2
    /\ steps = 1

\* C5: determinism.  Two runs of the same seed, configuration and scheduler
\* kind show the same stage for every agent at every point of the run.
C5_SameStages ==
    twin # <<>> => \A i \in Ids : twin[i].stage = agents[i].stage

\* the agent whose step() the transition has just called
Updated(i) ==
    /\ Len(activated') = Len(activated) + 1
    /\ activated'[Len(activated')] = i

\* the coordinates c-1, c, c+1 on a wrapped axis of n cells
NearOnAxis(c, n) == {(c + n - 1) % n, c, (c + 1) % n}

CellPairs ==
    {p \in Ids \X Ids :
        /\ p[1] # p[2]
        /\ agents[p[1]].pos = agents[p[2]].pos
        /\ agents[p[1]].stage \notin {DECEASED, RECOVERED}}

\* C12 as stated: the average-contacts metric.  The collected value is the
\* number of pairs of an agent neither DECEASED nor RECOVERED and another
\* agent of its cell, over the population size, whatever the isolation
\* flags.
C12_ContactsIgnoreIsolation ==
    pc = "collected" =>
        /\ snapshot.Contacts = Cardinality(CellPairs)
        /\ snapshot.num_agents = NumAgents

\* C12 amended: the collected value is the number of pairs of an agent i
\* neither DECEASED nor RECOVERED and another agent b of its cell such that
\* b is not isolated or i has its isolated_but_inefficient flag set, over
\* the population size.
C12_EffectiveContacts ==
    pc = "collected" =>
        /\ snapshot.Contacts =
               Cardinality({p \in CellPairs :
                               \/ ~agents[p[2]].isolated
                               \/ agents[p[1]].isolated_but_inefficient})
        /\ snapshot.num_agents = NumAgents

\* a row collected while an INFECTED agent shared its cell with one isolated
\* agent and nobody else
C12_Witness ==
    /\ pc = "collected"
    /\ snapshot.Contacts = 0
    /\ \E p \in CellPairs :
           agents[p[1]].stage = INFECTED /\ agents[p[2]].isolated

\* C13: the protocol of ISEpiModel.step.  A row is collected only between
\* two calls' agent updates, from the agents as they then are, and carries
\* the current stepno, one more than the row before it; agents are updated
\* only after the row of the tick was collected; stepno moves only by one,
\* together with the scheduler's counter, after the updates of the tick;
\* between calls stepno equals the scheduler's counter and the last row
\* carries stepno - 1.
C13_StepProtocol ==
    [][/\ snapshot' # snapshot =>
              /\ pc = "idle" /\ pc' = "collected"
              /\ agents' = agents
              /\ snapshot'.Step = stepno
              /\ snapshot'.Step = snapshot.Step + 1
              /\ \A st \in Stage :
                    Cardinality({i \in Ids : agents[i].stage = st}) =
                        CASE st = SUSCEPTIBLE -> snapshot'.Susceptible
                          [] st = INFECTED -> snapshot'.Infected
                          [] st = RECOVERED -> snapshot'.Recovered
                          [] st = DECEASED -> snapshot'.Deceased
       /\ agents' # agents =>
              /\ pc = "schedule"
              /\ snapshot.Step = stepno
              /\ steps = stepno
       /\ (stepno' # stepno \/ steps' # steps) =>
              /\ stepno' = stepno + 1
              /\ steps' = steps + 1
              /\ snapshot.Step = stepno
              /\ pc = "schedule" /\ pc' = "idle"
       /\ pc' = "idle" =>
              /\ stepno' = steps'
              /\ snapshot'.Step = stepno' - 1]_vars

\* two calls of ISEpiModel.step have returned
C13_Witness ==
    /\ pc = "idle"
    /\ stepno = 2
    /\ snapshot.Step = 1

\* the transition has applied the mobility action to agent i: a dwell
\* decrement in place, or a move to a cell of the neighbourhood with a
\* freshly sampled dwelling time
MobilityDone(i) ==
    IF agents[i].curr_dwelling > 0
    THEN /\ agents'[i].curr_dwelling = agents[i].curr_dwelling - 1
         /\ agents'[i].pos = agents[i].pos
    ELSE /\ agents'[i].pos \in get_neighborhood(agents[i].pos)
         /\ agents'[i].curr_dwelling \in PoissonDwell

\* C14: a non-isolated agent that is SUSCEPTIBLE when its update starts
\* performs the mobility action in that update whatever the infection
\* outcome, and the update does not run the INFECTED branch as well:
\* curr_recovery is left as it was.
C14_MovesWhateverOutcome ==
    [][\A i \in Ids :
          (/\ Updated(i)
           /\ agents[i].stage = SUSCEPTIBLE
           /\ ~agents[i].isolated)
          => /\ MobilityDone(i)
             /\ agents'[i].curr_recovery = agents[i].curr_recovery]_vars

\* C15: isolation gates contact infection.  Where no infection comes from
\* outside, an isolated SUSCEPTIBLE agent becomes INFECTED in an update only
\* if its isolation failed in that update and left isolated_but_inefficient
\* set.
C15_IsolationGatesContact ==
    [][\A i \in Ids :
          (/\ Updated(i)
           /\ rate_inbound = 0
           /\ agents[i].stage = SUSCEPTIBLE
           /\ agents[i].isolated
           /\ agents'[i].stage = INFECTED)
          => agents'[i].isolated_but_inefficient]_vars

\* C16: contact transmission is driven by INFECTED cell-mates.  Where no
\* infection comes from outside, a non-isolated SUSCEPTIBLE agent becomes
\* INFECTED only in an update during which another agent of its cell is
\* INFECTED.
C16_InfectedDriveSpread ==
    [][\A i \in Ids :
          (/\ Updated(i)
           /\ rate_inbound = 0
           /\ agents[i].stage = SUSCEPTIBLE
           /\ ~agents[i].isolated
           /\ agents'[i].stage = INFECTED)
          => \E b \in Ids \ {i} :
                /\ agents[b].pos = agents[i].pos
                /\ agents[b].stage = INFECTED]_vars

\* C17: the INFECTED timer.  An update of an INFECTED agent whose elapsed
\* time curr_incubation + curr_recovery is below incubation_time +
\* recovery_time adds exactly one to curr_recovery and leaves the agent
\* INFECTED or escalates it; an update at or above that sum makes the agent
\* RECOVERED and adds nothing; nothing else touches the timers of an
\* INFECTED agent, and the elapsed time never exceeds the sum.  Each update
\* spent INFECTED thus raises a counter bounded by the sum, so the agent is
\* out of INFECTED after at most that many updates plus one.
C17_InfectedTimer ==
    [][\A i \in Ids :
          LET a == agents[i]
              b == agents'[i]
              total == a.incubation_time + a.recovery_time
          IN  /\ b.incubation_time + b.recovery_time = total
              /\ b.curr_incubation + b.curr_recovery <= total
              /\ a.stage = INFECTED =>
                    IF ~Updated(i) THEN b = a
                    ELSE IF a.curr_incubation + a.curr_recovery < total
                    THEN /\ b.curr_recovery = a.curr_recovery + 1
                         /\ b.curr_incubation = a.curr_incubation
                         /\ b.stage \in {INFECTED, SEVERE}
                    ELSE /\ b.curr_recovery = a.curr_recovery
                         /\ b.curr_incubation = a.curr_incubation
                         /\ b.stage = RECOVERED]_vars

\* with no infection from outside, an agent INFECTED from the start has
\* used up its time and left INFECTED at the update after
C17_Witness ==
    /\ rate_inbound = 0
    /\ \E i \in Ids :
          /\ agents[i].stage = RECOVERED
          /\ agents[i].curr_recovery =
                 agents[i].incubation_time + agents[i].recovery_time
          /\ agents[i].astep = agents[i].curr_recovery + 1

\* C18: initial seeding.  Once the model is constructed, exactly num_init =
\* int(prop_initial_infected x population size) agents are in the initial
\* infectious stage (EXPOSED) and every other agent is SUSCEPTIBLE.
C18_SeedsNumInit ==
    pc # "setup" =>
        /\ count_type(agents, EXPOSED) = num_init
        /\ count_type(agents, SUSCEPTIBLE) = NumAgents - num_init

\* C19: the dwelling model.  Every update either leaves the agent's position
\* and curr_dwelling alone or applies the mobility action: with
\* curr_dwelling > 0 one less and the same position, with curr_dwelling = 0
\* a cell of the neighbourhood and a freshly sampled dwelling time.  So
\* curr_dwelling is never negative and no position changes from a state with
\* curr_dwelling > 0.  The action is applied to a RECOVERED agent and to a
\* non-isolated agent that stays SUSCEPTIBLE; it is never applied to an
\* INFECTED, a DECEASED or an isolated SUSCEPTIBLE agent, nor to an agent
\* that is not being updated.
C19_DwellingModel ==
    [][\A i \in Ids :
          LET a == agents[i]
              b == agents'[i]
              Still == b.pos = a.pos /\ b.curr_dwelling = a.curr_dwelling
          IN  /\ a.curr_dwelling >= 0 /\ b.curr_dwelling >= 0
              /\ a.curr_dwelling > 0 => b.pos = a.pos
              /\ Still \/ (Updated(i) /\ MobilityDone(i))
              /\ (Updated(i) /\ fault' = "none" /\ a.stage = RECOVERED)
                    => MobilityDone(i)
              /\ (/\ Updated(i)
                  /\ a.stage = SUSCEPTIBLE /\ b.stage = SUSCEPTIBLE
                  /\ ~a.isolated)
                    => MobilityDone(i)
              /\ (\/ a.stage \in {INFECTED, DECEASED}
                  \/ a.stage = SUSCEPTIBLE /\ a.isolated)
                    => Still]_vars

\* the agent placed at the origin has moved at its first update and drawn
\* a dwelling time above 0
C19_Witness ==
    /\ agents[0].astep = 1
    /\ agents[0].pos # <<0, 0>>
    /\ agents[0].curr_dwelling = MaxDwell

\* C20: DECEASED is unreachable.  In a run that starts without a DECEASED
\* agent, as every constructed model does, no agent is ever DECEASED and
\* every collected row counts 0 of them.
C20_NoDeceased ==
    /\ \A i \in Ids : agents[i].stage # DECEASED
    /\ snapshot # NoSnapshot => snapshot.Deceased = 0

\* two rows were collected and an agent has been through its illness to
\* the end
C20_Witness ==
    /\ pc = "idle"
    /\ snapshot.Step = 1
    /\ \E i \in Ids : agents[i].stage = RECOVERED /\ agents[i].curr_recovery > 0

\* some registered agent has an earmark that is no key of self.stages
BadEarmark == \E i \in Ids : earmark_of(i) \notin 0..(Partitions - 1)

\* C21: a step of the earmark scheduler that fails on an out-of-range earmark
\* is all-or-nothing.  Entering a scheduler step with such an earmark among
\* the registered agents raises the KeyError at once; the transition that
\* raises it changes no agent and neither scheduler counter and has called
\* no agent's step(), and nothing happens after it: in the failed state no
\* update of that step has run and every agent has been updated exactly as
\* often as there are completed steps.
C21_FailedStepAllOrNothing ==
    [][/\ (scheduler = "graham" /\ pc = "collected" /\ BadEarmark)
             => fault' = "KeyError"
       /\ (fault # "KeyError" /\ fault' = "KeyError") =>
             /\ scheduler = "graham" /\ BadEarmark
             /\ agents' = agents
             /\ steps' = steps /\ time' = time /\ stepno' = stepno
             /\ activated' = <<>>
             /\ \A i \in Ids : agents'[i].astep = steps'
       /\ fault = "KeyError" => UNCHANGED vars]_vars

\* the step failed on the second registered agent after the first had been
\* filed in its bucket
C21_Witness ==
    /\ fault = "KeyError"
    /\ earmark_of(0) = 0
    /\ earmark_of(1) = Partitions
    /\ stages[0] = <<0>>
    /\ agents[0].astep = 0

====
